---- MODULE Spec2Model ----
(***************************************************************************)
(* Training orchestration core of lvamodel: the three Monitor classes      *)
(*   src/cvap/monitor/cvap_dp.py  (variant "cvap_dp")                      *)
(*   src/cvap/monitor/clap_dp.py  (variant "clap_dp")                      *)
(*   src/cvap/cvap.py             (variant "cvap")                         *)
(* as one state machine of a single process.  The configuration (cfg), the *)
(* rank of the process and the Monitor class are chosen in Init; the       *)
(* actions follow the control flow of __init__, learn, epoch, infer, save. *)
(* Learning rates are exact rationals [n, d]; floating-point rounding is   *)
(* not modelled.                                                           *)
(***************************************************************************)
EXTENDS Integers, Sequences, FiniteSets, TLC

\* ------------------------------------------------------------- bounds
MaxRate == 3
MaxN == 3
MaxEpochs == 2
MaxWarmup == 3
MaxEval == 2
MaxAcc == 2
MaxReport == 2
MaxDim == 2

\* ------------------------------------------------------------- rationals
Rat(n, d) == [n |-> n, d |-> d]
RatEq(a, b) == a.n * b.d = b.n * a.d
RatLeq(a, b) == a.n * b.d <= b.n * a.d
RatMul(a, b) == [n |-> a.n * b.n, d |-> a.d * b.d]
Half == Rat(1, 2)
Variants == {"cvap_dp", "clap_dp", "cvap"}

\* The model's parameters, by name (a path of components), as
\* named_parameters() yields them without the DistributedDataParallel prefix.
ParamNames == {<<"image_head", "w">>, <<"audio_head", "w">>, <<"loss_head", "b">>}

\* re.sub("^module\.", "", k) if ddp else k
strip_module(k, ddp) == IF ddp /\ Len(k) > 0 /\ Head(k) = "module" THEN Tail(k) ELSE k

\* ------------------------------------------------------------- configurations
\* eval_samples: float("inf") or a number of samples
Inf == [inf |-> TRUE, n |-> 0]
Fin(k) == [inf |-> FALSE, n |-> k]

\* (distributed?, rank): single process, or rank 0 / rank 1 of a group of two
RankModes == {<<FALSE, 0>>, <<TRUE, 0>>, <<TRUE, 1>>}
SchedulerNames == {"CosineAnnealingWarmRestarts", "StepLR"}
\* T_0 of CosineAnnealingWarmRestarts (T_mult = 1, eta_min = 0), step_size of StepLR
Periods == {1, 2, 3}
LongWarmups == {20, 40, 41}

Base ==
    [variant |-> "cvap_dp", ddp |-> FALSE, rank |-> 0, num_gpus |-> 1,
     eval |-> FALSE, eval_norms |-> FALSE,
     peep_rate |-> 2, save_rate |-> 2, save_epoch |-> FALSE,
     use_lars |-> FALSE, warmup |-> FALSE, warmup_steps |-> 2, batch_sch |-> FALSE,
     optimizer |-> "Adam", scheduler |-> "StepLR", period |-> 2, steps |-> {},
     lr |-> 3, epochs |-> 1, nstep |-> 2, batch_size |-> 2,
     eval_exists |-> TRUE, neval |-> 2, eval_samples |-> Inf, verbose |-> FALSE,
     faulty |-> FALSE, skew |-> FALSE, resolution |-> 2]

Ranked(c, rm) == [c EXCEPT !.ddp = rm[1], !.rank = rm[2], !.num_gpus = IF rm[1] THEN 2 ELSE 1]

\* logging / saving cadence of the two data-parallel monitors, in runs of at
\* most 2 * MaxN training steps
CadenceCfgs ==
    {c \in {[Ranked(Base, rm) EXCEPT !.variant = v, !.peep_rate = p, !.save_rate = s,
                                     !.save_epoch = se, !.nstep = n, !.epochs = e,
                                     !.eval_exists = ev] :
                v \in {"cvap_dp", "clap_dp"}, rm \in RankModes, p \in 1..MaxRate,
                s \in 1..MaxRate, se \in BOOLEAN, n \in 0..MaxN, e \in 0..MaxEpochs,
                ev \in BOOLEAN} :
        c.nstep * c.epochs <= 2 * MaxN}

\* learning-rate policies: LARS, warmup, per-batch or per-epoch scheduler
PolicyCfgs ==
    {[Ranked(Base, rm) EXCEPT !.variant = v, !.use_lars = la, !.warmup = w,
                              !.warmup_steps = ws, !.batch_sch = bs, !.scheduler = sn,
                              !.period = t, !.save_rate = MaxRate, !.nstep = MaxN,
                              !.epochs = MaxEpochs, !.steps = IF bs THEN {} ELSE {1}] :
        v \in {"cvap_dp", "clap_dp"}, rm \in RankModes, la \in BOOLEAN, w \in BOOLEAN,
        ws \in 0..MaxWarmup, bs \in BOOLEAN, sn \in SchedulerNames, t \in Periods}

\* a warmup longer than 20 steps (warmup_step_rate > 1 from 40 on)
LongWarmCfgs ==
    {[Base EXCEPT !.variant = v, !.warmup = TRUE, !.warmup_steps = ws, !.batch_sch = bs,
                  !.nstep = ws + 2, !.peep_rate = 7, !.save_rate = 50] :
        v \in {"cvap_dp", "clap_dp"}, ws \in LongWarmups, bs \in BOOLEAN}

\* the end-to-end run: 10 batches, peep_rate 5, save_rate 10, one epoch
EndToEndCfgs ==
    {[Ranked(Base, rm) EXCEPT !.variant = v, !.nstep = 10, !.peep_rate = 5,
                              !.save_rate = 10, !.epochs = 1, !.warmup = w,
                              !.batch_sch = bs, !.scheduler = sn, !.period = 3,
                              !.save_epoch = se, !.eval_exists = ev] :
        v \in {"cvap_dp", "clap_dp"}, rm \in RankModes, w \in BOOLEAN, bs \in BOOLEAN,
        sn \in SchedulerNames, se \in BOOLEAN, ev \in BOOLEAN}

\* cvap.py: no ranks, no evaluation loader, no scheduler
CvapCfgs ==
    {[Base EXCEPT !.variant = "cvap", !.peep_rate = p, !.save_rate = s, !.nstep = n,
                  !.epochs = e, !.eval = ev, !.eval_exists = FALSE] :
        p \in 1..MaxRate, s \in 1..MaxRate, n \in 0..MaxN, e \in 0..(MaxEpochs + 3),
        ev \in BOOLEAN}
    \cup {[Base EXCEPT !.variant = "cvap", !.nstep = 10, !.peep_rate = 5,
                       !.save_rate = 10, !.epochs = 1, !.eval_exists = FALSE]}

\* cfg.eval: a single inference pass; eval_norms: mean and std only
EvalCfgs ==
    {[Ranked(Base, rm) EXCEPT !.variant = v, !.eval = TRUE, !.eval_norms = en,
                              !.nstep = n, !.eval_samples = es] :
        v \in {"cvap_dp", "clap_dp"}, rm \in RankModes, en \in BOOLEAN, n \in 0..MaxN,
        es \in {Inf} \cup {Fin(k) : k \in 0..(2 * MaxEval)}}
    \cup {[Base EXCEPT !.variant = v, !.eval_norms = TRUE] : v \in {"cvap_dp", "clap_dp"}}

\* evaluation during training bounded by eval_samples
SampleCfgs ==
    {[Ranked(Base, rm) EXCEPT !.variant = v, !.neval = ne, !.eval_samples = es] :
        v \in {"cvap_dp", "clap_dp"}, rm \in RankModes, ne \in 0..MaxEval,
        es \in {Inf} \cup {Fin(k) : k \in 0..(2 * MaxEval)}}

\* optimizer / scheduler names that torch does not define
NameCfgs ==
    {[Base EXCEPT !.variant = v, !.optimizer = o, !.scheduler = sn, !.use_lars = la,
                  !.eval = ev] :
        v \in Variants, o \in {"Adam", "NoSuchOptimizer"},
        sn \in SchedulerNames \cup {"NoSuchScheduler"}, la \in BOOLEAN, ev \in BOOLEAN}

\* LARS together with a warmup whose warmup_step_rate is not 0
LarsWarmCfgs ==
    {[Base EXCEPT !.variant = v, !.use_lars = la, !.warmup = TRUE,
                  !.warmup_steps = 20, !.nstep = 2, !.save_rate = MaxRate] :
        v \in {"cvap_dp", "clap_dp"}, la \in BOOLEAN}

\* runs in which the forward or backward pass of a training step may raise
FaultCfgs ==
    {[Ranked(Base, rm) EXCEPT !.variant = v, !.faulty = TRUE, !.peep_rate = 1,
                              !.save_rate = 1, !.epochs = MaxEpochs, !.warmup = w] :
        v \in {"cvap_dp", "clap_dp"}, rm \in RankModes, w \in BOOLEAN}
    \cup {[Base EXCEPT !.variant = "cvap", !.faulty = TRUE, !.peep_rate = 1,
                       !.save_rate = 1, !.epochs = MaxEpochs, !.eval_exists = FALSE]}

\* distributed runs in which the losses of the two ranks, each of its own
\* shard of the batch, are explored on both sides of 5 independently
SkewCfgs ==
    {[Ranked(Base, rm) EXCEPT !.variant = v, !.skew = TRUE, !.save_rate = s,
                              !.save_epoch = se] :
        v \in {"cvap_dp", "clap_dp"}, rm \in {<<TRUE, 0>>, <<TRUE, 1>>},
        s \in 1..MaxRate, se \in BOOLEAN}

Configs == CadenceCfgs \cup PolicyCfgs \cup LongWarmCfgs \cup EndToEndCfgs
           \cup CvapCfgs \cup EvalCfgs \cup SampleCfgs \cup NameCfgs
           \cup LarsWarmCfgs \cup FaultCfgs \cup SkewCfgs

\* the configurations whose parameter flags are explored exhaustively
ParamCfgs ==
    {[Ranked(Base, rm) EXCEPT !.variant = v, !.eval = ev] :
        v \in {"cvap_dp", "clap_dp"}, rm \in {<<FALSE, 0>>, <<TRUE, 1>>}, ev \in BOOLEAN}
    \cup {[Base EXCEPT !.variant = "cvap", !.eval_exists = FALSE]}

DefaultTunable == {<<"audio_head", "w">>, <<"loss_head", "b">>}

\* ------------------------------------------------------------- state
VARIABLES
    cfg,            \* the configuration record (self.cfg)
    pc,             \* position of the process in __init__ / learn / epoch
    err,            \* the exception that ended the run ("" if none)
    model,          \* "none" (not built), "train" or "eval" (model.training)
    has_optimizer,  \* self.optimizer exists
    evalloader,     \* self.evalloader is not None
    tunable_params, \* names returned by model.build()
    requires_grad,  \* parameter name -> requires_grad
    lr,             \* param_group['lr'] of the two parameter groups
    base_lrs,       \* scheduler.base_lrs (= the groups' initial_lr)
    sched,          \* scheduler state [last_epoch, T_cur]
    counters,       \* "unset" before training starts, "set" afterwards
    total_step, total_inst, total_loss,
    iepoch, ibatch, step,
    warmup, force_eval, loss_small,
    \* history of side effects
    echoes,         \* calls of the logging sink made by learn() and its callees
    logs,           \* total_step values at which the progress line was emitted
    forced,         \* total_step values of the steps in which force_eval was set
    branches,       \* total_step values at which the evaluate/checkpoint branch ran
    evals,          \* total_step values at which the branch ran infer()
    saves,          \* the checkpoint paths written, in order
    nopt,           \* optimizer steps taken
    ninfer,         \* inference passes (calls of infer)
    neval_fwd,      \* evaluation forward passes
    lr_applied,     \* the learning rates the last optimizer step used
    lr_prev,        \* the learning rates the optimizer step before it used
    cfg0,           \* the configuration as it was handed to the constructor
    built,          \* what the constructor has run, in order
    nsample, ieval, \* infer(): the samples counted and the batches enumerated
    fwd_modes,      \* <<kind of forward pass, model.training>> of the passes made
    failed_at,      \* total_step when a training step raised (-1: none did)
    lr_policies,    \* the learning-rate policies that acted in the last step
    events,         \* what the current training step has done so far, in order
    set_epochs,     \* the calls sampler.set_epoch(i), as <<dataloader, i>>, in order
    peer_run,       \* the other rank of the group ran infer() in its last branch
    \* a batch on its way through make_batch
    batch,          \* the batch the dataloader yielded
    made,           \* what make_batch returned for it
    \* a BCELossHead (loss_more.py)
    buffers,        \* the attributes audios, x1s, x2s, ids: absent, or the lists
    acc_eval,       \* for every buffered entry, the evaluation it was added in
    nreport,        \* calls of report() that returned
    nacc,           \* calls of infer() since the last report() that returned
    head_out,       \* the outcome of the last call on the head
    ap_nan          \* the installed sklearn gives nan (not 0.) without positives

vars == <<cfg, pc, err, model, has_optimizer, evalloader, tunable_params,
          requires_grad, lr, base_lrs, sched, counters, total_step, total_inst,
          total_loss, iepoch, ibatch, step, warmup, force_eval, loss_small,
          echoes, logs, forced, branches, evals, saves, nopt, ninfer, neval_fwd,
          lr_applied, lr_prev, cfg0, built, nsample, ieval, fwd_modes, failed_at,
          lr_policies, events, set_epochs, peer_run, batch, made,
          buffers, acc_eval, nreport, nacc, head_out, ap_nan>>

head_vars == <<buffers, acc_eval, nreport, nacc, head_out, ap_nan>>

monitor_vars ==
    <<cfg, pc, err, model, has_optimizer, evalloader, tunable_params,
      requires_grad, lr, base_lrs, sched, counters, total_step, total_inst,
      total_loss, iepoch, ibatch, step, warmup, force_eval, loss_small,
      echoes, logs, forced, branches, evals, saves, nopt, ninfer, neval_fwd,
      lr_applied, lr_prev, cfg0, built, nsample, ieval, fwd_modes, failed_at,
      lr_policies, events, set_epochs, peer_run>>

batch_vars == <<batch, made>>

\* the head before any call: no buffer attribute exists
NoBuffers == [has |-> FALSE, audios |-> <<>>, x1s |-> <<>>, x2s |-> <<>>, ids |-> <<>>]

NoCall == [call |-> "none", raised |-> "", has_err |-> FALSE, ap_list |-> <<>>,
           auc_list |-> <<>>, nsample |-> 0, x1s |-> <<>>, x2s |-> <<>>,
           of_eval |-> {}, nacc |-> 0, training |-> FALSE, ret |-> ""]

\* no batch has been fetched
NoBatch == [images |-> <<>>, audios |-> <<>>, text |-> <<>>, ids |-> <<>>]

\* make_batch has not returned for it
NoMade == [ret |-> <<>>, resized |-> FALSE, images |-> <<>>, audios |-> <<>>,
           text |-> <<>>, ids |-> <<>>]

BatchNew == batch = NoBatch /\ made = NoMade

HeadNew ==
    /\ buffers = NoBuffers
    /\ acc_eval = <<>>
    /\ nreport = 0 /\ nacc = 0
    /\ head_out = NoCall

Zero == Rat(0, 1)

\* a Monitor before its constructor has run
MonitorNew ==
    /\ pc = "new"
    /\ err = ""
    /\ model = "none"
    /\ has_optimizer = FALSE
    /\ evalloader = FALSE
    /\ lr = <<Zero, Zero>>
    /\ base_lrs = <<Zero, Zero>>
    /\ sched = [last_epoch |-> 0, T_cur |-> 0]
    /\ counters = "unset"
    /\ total_step = 0 /\ total_inst = 0 /\ total_loss = 0
    /\ iepoch = 0 /\ ibatch = 0 /\ step = 0
    /\ warmup = FALSE /\ force_eval = FALSE /\ loss_small = TRUE
    /\ echoes = 0
    /\ logs = {} /\ forced = {} /\ branches = {} /\ evals = {}
    /\ saves = <<>>
    /\ nopt = 0 /\ ninfer = 0 /\ neval_fwd = 0
    /\ lr_applied = <<Zero, Zero>> /\ lr_prev = <<Zero, Zero>>
    /\ cfg0 = cfg
    /\ built = <<>>
    /\ nsample = 0 /\ ieval = 0
    /\ fwd_modes = {}
    /\ failed_at = -1
    /\ lr_policies = {}
    /\ events = <<>>
    /\ set_epochs = <<>>
    /\ peer_run = FALSE

Init ==
    /\ cfg \in Configs
    /\ \E tp \in SUBSET ParamNames, g \in [ParamNames -> BOOLEAN] :
          /\ \/ cfg \in ParamCfgs /\ (cfg.variant = "cvap" => tp = DefaultTunable)
             \/ tp = DefaultTunable /\ g = [k \in ParamNames |-> TRUE]
          /\ tunable_params = tp
          /\ requires_grad = g
    /\ MonitorNew
    /\ HeadNew /\ ap_nan = FALSE
    /\ BatchNew

\* ------------------------------------------------------------- construction
\* build_data: the derived peep_rate, clamped to the number of batches
clamp_peep_rate(c) == IF c.nstep < c.peep_rate THEN c.nstep ELSE c.peep_rate

\* build_data: the evaluation loader is built when the evaluation data exists;
\* under cfg.eval its name is "IGNORE_ME", which names no data
build_evalloader(c) == ~c.eval /\ c.eval_exists

\* build_optimizer: requires_grad = False for every parameter the mapping does
\* not name; the flag of a named parameter is left as it is
freeze(g, tp, ddp) ==
    [k \in ParamNames |->
        IF strip_module(IF ddp THEN <<"module">> \o k ELSE k, ddp) \notin tp
        THEN FALSE ELSE g[k]]

\* getattr(torch.optim, name) / getattr(torch.optim.lr_scheduler, name)
torch_has(name) == name \in {"Adam"} \cup SchedulerNames

\* the exception build_optimizer of cvap_dp.py raises, "" if none
build_optimizer_error_dp(c) ==
    IF c.use_lars THEN ""
    ELSE IF ~torch_has(c.optimizer) \/ ~torch_has(c.scheduler) THEN "AttributeError"
    ELSE ""

\* cvap.py: build_model under cfg.eval builds no loss head, and togpu() reads it;
\* otherwise the optimizer is looked up by name
init_error_cvap(c) ==
    IF c.eval THEN "AttributeError"
    ELSE IF ~torch_has(c.optimizer) THEN "AttributeError"
    ELSE ""

ParamLR(c) == <<Rat(c.lr, 1), Rat(c.lr, 1)>>

\* Monitor.__init__ of cvap_dp.py
MonitorInit_dp ==
    /\ pc = "new" /\ cfg.variant = "cvap_dp"
    /\ cfg' = [cfg EXCEPT !.peep_rate = clamp_peep_rate(cfg)]
    /\ evalloader' = build_evalloader(cfg)
    /\ IF cfg.eval_norms
       THEN /\ pc' = "ready"
            /\ built' = <<"data", "norms">>
            /\ UNCHANGED <<err, model, has_optimizer, requires_grad, lr, base_lrs>>
       ELSE /\ model' = IF cfg.eval THEN "eval" ELSE "train"
            /\ IF cfg.eval
               THEN /\ pc' = "ready"
                    /\ built' = <<"data", "model">>
                    /\ UNCHANGED <<err, has_optimizer, requires_grad, lr, base_lrs>>
               ELSE /\ requires_grad' = freeze(requires_grad, tunable_params, cfg.ddp)
                    /\ err' = build_optimizer_error_dp(cfg)
                    /\ pc' = IF err' = "" THEN "ready" ELSE "raised"
                    /\ has_optimizer' = (err' = "")
                    /\ built' = IF err' = "" THEN <<"data", "model", "optimizer">>
                                 ELSE <<"data", "model">>
                    /\ lr' = IF cfg.use_lars \/ err' # "" THEN <<Zero, Zero>> ELSE ParamLR(cfg)
                    /\ base_lrs' = lr'
    /\ UNCHANGED <<tunable_params, sched, counters, total_step, total_inst, total_loss,
                   iepoch, ibatch, step, warmup, force_eval, loss_small, echoes, logs,
                   forced, branches, evals, saves, nopt, ninfer, neval_fwd, lr_applied,
                   lr_prev>>
    /\ UNCHANGED <<cfg0, nsample, ieval, fwd_modes, failed_at, lr_policies>>
    /\ UNCHANGED <<events, set_epochs, peer_run>>
    /\ UNCHANGED head_vars /\ UNCHANGED batch_vars

\* Monitor.__init__ of clap_dp.py: no clamp of peep_rate; Adam and MultiStepLR
\* are fixed, the configured names are not read
MonitorInit_la ==
    /\ pc = "new" /\ cfg.variant = "clap_dp"
    /\ evalloader' = build_evalloader(cfg)
    /\ pc' = "ready"
    /\ IF cfg.eval_norms
       THEN /\ built' = <<"data", "norms">>
            /\ UNCHANGED <<model, has_optimizer, requires_grad, lr, base_lrs>>
       ELSE /\ model' = IF cfg.eval THEN "eval" ELSE "train"
            /\ IF cfg.eval
               THEN /\ built' = <<"data", "model">>
                    /\ UNCHANGED <<has_optimizer, requires_grad, lr, base_lrs>>
               ELSE /\ requires_grad' = freeze(requires_grad, tunable_params, cfg.ddp)
                    /\ has_optimizer' = TRUE
                    /\ built' = <<"data", "model", "optimizer">>
                    /\ lr' = IF cfg.use_lars THEN <<Zero, Zero>> ELSE ParamLR(cfg)
                    /\ base_lrs' = lr'
    /\ UNCHANGED <<cfg, err, tunable_params, sched, counters, total_step, total_inst,
                   total_loss, iepoch, ibatch, step, warmup, force_eval, loss_small,
                   echoes, logs, forced, branches, evals, saves, nopt, ninfer,
                   neval_fwd, lr_applied, lr_prev>>
    /\ UNCHANGED <<cfg0, nsample, ieval, fwd_modes, failed_at, lr_policies>>
    /\ UNCHANGED <<events, set_epochs, peer_run>>
    /\ UNCHANGED head_vars /\ UNCHANGED batch_vars

\* Monitor.__init__ of cvap.py: build_data, build_model, build_optimizer
MonitorInit_cvap ==
    /\ pc = "new" /\ cfg.variant = "cvap"
    /\ err' = init_error_cvap(cfg)
    /\ pc' = IF err' = "" THEN "ready" ELSE "raised"
    /\ model' = IF cfg.eval THEN "eval" ELSE "train"
    /\ IF cfg.eval
       THEN /\ built' = <<"data">>
            /\ UNCHANGED <<has_optimizer, requires_grad, lr, base_lrs>>
       ELSE /\ requires_grad' = freeze(requires_grad, tunable_params, FALSE)
            /\ has_optimizer' = (err' = "")
            /\ built' = IF err' = "" THEN <<"data", "model", "optimizer">>
                         ELSE <<"data", "model">>
            /\ lr' = IF err' = "" THEN ParamLR(cfg) ELSE lr
            /\ base_lrs' = lr'
    /\ UNCHANGED <<cfg, evalloader, tunable_params, sched, counters, total_step,
                   total_inst, total_loss, iepoch, ibatch, step, warmup, force_eval,
                   loss_small, echoes, logs, forced, branches, evals, saves, nopt,
                   ninfer, neval_fwd, lr_applied, lr_prev>>
    /\ UNCHANGED <<cfg0, nsample, ieval, fwd_modes, failed_at, lr_policies>>
    /\ UNCHANGED <<events, set_epochs, peer_run>>
    /\ UNCHANGED head_vars /\ UNCHANGED batch_vars

\* nn.Module.eval() on the cvap.py Monitor, which is itself the module whose
\* training flag learn() reads
eval_cvap ==
    /\ pc = "ready" /\ cfg.variant = "cvap" /\ model = "train"
    /\ model' = "eval"
    /\ UNCHANGED <<cfg, pc, err, has_optimizer, evalloader, tunable_params,
                   requires_grad, lr, base_lrs, sched, counters, total_step,
                   total_inst, total_loss, iepoch, ibatch, step, warmup, force_eval,
                   loss_small, echoes, logs, forced, branches, evals, saves, nopt,
                   ninfer, neval_fwd, lr_applied, lr_prev>>
    /\ UNCHANGED <<cfg0, built, nsample, ieval, fwd_modes, failed_at, lr_policies>>
    /\ UNCHANGED <<events, set_epochs, peer_run>>
    /\ UNCHANGED head_vars /\ UNCHANGED batch_vars

\* ------------------------------------------------------------- infer
Max(a, b) == IF a >= b THEN a ELSE b

\* the loop of infer(): the number of batches processed before the loop ends,
\* from batch ib with ns samples counted; per = images.shape[0] * nchunk
RECURSIVE infer_loop(_, _, _, _, _)
infer_loop(ib, ns, nbatch, per, samples) ==
    IF ib >= nbatch THEN ib
    ELSE IF ~samples.inf /\ ns >= samples.n THEN ib
    ELSE infer_loop(ib + 1, ns + per, nbatch, per, samples)

\* nchunk of infer(): cfg.num_gpus under DistributedDataParallel, else 1
infer_nchunk(c) == IF c.ddp THEN c.num_gpus ELSE 1

infer_batches(c, nbatch) ==
    infer_loop(0, 0, nbatch, c.batch_size * infer_nchunk(c), c.eval_samples)

\* the batch is processed also when nsample has just reached samples
infer_continues_le(ns, samples) == samples.inf \/ ns <= samples.n

\* `if nsample >= samples: break`, negated: the batch is processed
infer_continues(ns, samples) == samples.inf \/ ns < samples.n

\* peep_rate of infer()
infer_peep_rate(nbatch) == Max(10, nbatch \div 10)

\* ------------------------------------------------------------- learn
Training == model = "train"

\* the mean and std of the data were the only task
learn_returns_at_once_never(c) == FALSE

\* learn(): `if self.cfg.running.audio.eval_norms: return`
learn_returns_at_once(c) == c.eval_norms

\* the sampler is reseeded whether the model is wrapped or not
sets_epoch_always(c) == TRUE

\* learn() and infer(): `if isinstance(self.model, DistributedDataParallel)`,
\* the guard of sampler.set_epoch; the model is wrapped iff the process group
\* is initialized
sets_epoch(c) == c.ddp

\* learn() of cvap_dp.py and clap_dp.py, up to its call of infer() or its loop
\* over the epochs
learn ==
    /\ pc = "ready" /\ cfg.variant \in {"cvap_dp", "clap_dp"}
    /\ IF learn_returns_at_once(cfg)
       THEN /\ pc' = "done"
            /\ UNCHANGED <<counters, total_step, total_inst, total_loss, iepoch,
                           echoes, ninfer, nsample, ieval, set_epochs>>
       ELSE IF ~Training
       THEN /\ pc' = "infer"
            /\ echoes' = echoes + 1
            /\ ninfer' = ninfer + 1
            /\ nsample' = 0 /\ ieval' = 0
            /\ set_epochs' = IF sets_epoch(cfg) THEN Append(set_epochs, <<"main", 0>>)
                              ELSE set_epochs
            /\ UNCHANGED <<counters, total_step, total_inst, total_loss, iepoch>>
       ELSE /\ pc' = "epoch"
            /\ echoes' = echoes + 1
            /\ counters' = "set"
            /\ total_step' = 0 /\ total_inst' = 0 /\ total_loss' = 0
            /\ iepoch' = 0
            /\ UNCHANGED <<ninfer, nsample, ieval, set_epochs>>
    /\ UNCHANGED <<cfg, err, model, has_optimizer, evalloader, tunable_params,
                   requires_grad, lr, base_lrs, sched, ibatch, step, warmup,
                   force_eval, loss_small, logs, forced, branches, evals, saves, nopt,
                   neval_fwd, lr_applied, lr_prev>>
    /\ UNCHANGED <<cfg0, built, fwd_modes, failed_at, lr_policies>>
    /\ UNCHANGED <<events, peer_run>>
    /\ UNCHANGED head_vars /\ UNCHANGED batch_vars

\* learn() of cvap.py: not training, it returns infer(), which does nothing
learn_cvap ==
    /\ pc = "ready" /\ cfg.variant = "cvap"
    /\ IF ~Training
       THEN /\ pc' = "done"
            /\ UNCHANGED <<counters, total_step, total_inst, total_loss, iepoch, echoes>>
       ELSE /\ pc' = "epoch"
            /\ echoes' = echoes + 1
            /\ counters' = "set"
            /\ total_step' = 0 /\ total_inst' = 0 /\ total_loss' = 0
            /\ iepoch' = 0
    /\ UNCHANGED <<cfg, err, model, has_optimizer, evalloader, tunable_params,
                   requires_grad, lr, base_lrs, sched, ibatch, step, warmup,
                   force_eval, loss_small, logs, forced, branches, evals, saves, nopt,
                   ninfer, neval_fwd, lr_applied, lr_prev>>
    /\ UNCHANGED <<cfg0, built, nsample, ieval, fwd_modes, failed_at, lr_policies>>
    /\ UNCHANGED <<events, set_epochs, peer_run>>
    /\ UNCHANGED head_vars /\ UNCHANGED batch_vars

\* the head of the loop over epochs: the next epoch starts (set_epoch under
\* DistributedDataParallel, then epoch(iepoch) up to its loop over the batches),
\* or learn() returns
epoch ==
    /\ pc = "epoch"
    /\ IF iepoch < cfg.epochs
       THEN /\ pc' = "batch"
            /\ ibatch' = 0
            /\ set_epochs' = IF cfg.variant # "cvap" /\ sets_epoch(cfg)
                              THEN Append(set_epochs, <<"main", iepoch>>)
                              ELSE set_epochs
       ELSE /\ pc' = "done"
            /\ UNCHANGED <<ibatch, set_epochs>>
    /\ UNCHANGED <<cfg, err, model, has_optimizer, evalloader, tunable_params,
                   requires_grad, lr, base_lrs, sched, counters, total_step,
                   total_inst, total_loss, iepoch, step, warmup, force_eval, loss_small,
                   echoes, logs, forced, branches, evals, saves, nopt, ninfer,
                   neval_fwd, lr_applied, lr_prev>>
    /\ UNCHANGED <<cfg0, built, nsample, ieval, fwd_modes, failed_at, lr_policies>>
    /\ UNCHANGED <<events, peer_run>>
    /\ UNCHANGED head_vars /\ UNCHANGED batch_vars

\* ------------------------------------------------------------- learning rates
\* adjust_learning_rate (cvap/module, LARS): the rate of every group is set
\* from the loop's step index
adjust_learning_rate(c, st) ==
    LET r == Rat(c.lr * st, Max(1, c.epochs * c.nstep)) IN <<r, r>>

\* every group's rate multiplied by r
Scale(v, r) == <<RatMul(v[1], r), RatMul(v[2], r)>>

\* list equality of two learning-rate vectors (lrs == scheduler.base_lrs)
LrsEq(a, b) == \A g \in 1..2 : RatEq(a[g], b[g])

\* 4 * (1 + cos(pi * t / T)) / 2 for the periods T in Periods
CosFactor4(t, T) ==
    CASE T = 1 -> 4
      [] T = 2 -> IF t = 0 THEN 4 ELSE 2
      [] T = 3 -> IF t = 0 THEN 4 ELSE IF t = 1 THEN 3 ELSE 1

\* scheduler.step() of torch.optim.lr_scheduler, for the scheduler named in
\* cfg.optimizer.scheduler: the new scheduler state and learning rates
scheduler_step(c, sc, rates, base) ==
    IF c.scheduler = "CosineAnnealingWarmRestarts"
    THEN LET t == IF sc.T_cur + 1 >= c.period THEN sc.T_cur + 1 - c.period
                  ELSE sc.T_cur + 1
         IN  [sched |-> [last_epoch |-> sc.last_epoch + 1, T_cur |-> t],
              lr |-> Scale(base, Rat(CosFactor4(t, c.period), 4))]
    ELSE LET e == sc.last_epoch + 1
         IN  [sched |-> [last_epoch |-> e, T_cur |-> sc.T_cur],
              lr |-> IF e % c.period = 0 THEN Scale(rates, Half) ELSE rates]

\* MultiStepLR(optimizer, steps or [epochs], gamma=0.5).step() of clap_dp.py
multistep_step(c, sc, rates) ==
    LET e == sc.last_epoch + 1
        milestones == IF c.steps = {} THEN {c.epochs} ELSE c.steps
    IN  [sched |-> [last_epoch |-> e, T_cur |-> sc.T_cur],
         lr |-> IF e \in milestones THEN Scale(rates, Half) ELSE rates]

\* cvap_dp.py: warmup_step_rate
warmup_step_rate_dp(c) == Max(c.warmup_steps \div 20, 1)

\* clap_dp.py: warmup_step_rate
warmup_step_rate_la(c) == c.warmup_steps \div 20

\* cvap_dp.py: the local `warmup` of a step that starts with total_step = ts
warmup_dp(c, ts) == ~c.use_lars /\ c.warmup /\ ts <= c.warmup_steps

\* cvap_dp.py: the learning rates while the batch is processed, and the flags,
\* before the optimizer step of the step that starts with total_step = ts
pre_step_dp(c, ts, st, rates, base) ==
    LET lars == IF c.use_lars THEN adjust_learning_rate(c, st) ELSE rates
        wu == warmup_dp(c, ts)
        assign == wu /\ ts % warmup_step_rate_dp(c) = 0
        raised == assign /\ c.warmup_steps = 0
        warm == IF assign /\ ~raised
                THEN Scale(base, Rat(ts, c.warmup_steps))
                ELSE lars
    IN  [warmup |-> wu, raised |-> raised, lr |-> warm,
         force_eval |-> assign /\ ~raised /\ LrsEq(warm, base),
         echo |-> IF assign /\ ~raised THEN 1 ELSE 0,
         policies |-> (IF c.use_lars THEN {"lars"} ELSE {})
                      \cup (IF assign /\ ~raised THEN {"warmup"} ELSE {})]

\* clap_dp.py: the same for the step that starts with total_step = ts
pre_step_la(c, ts, st, rates) ==
    LET lars == IF c.use_lars THEN adjust_learning_rate(c, st) ELSE rates
        wu == c.warmup /\ ts <= c.warmup_steps
        raised == wu /\ warmup_step_rate_la(c) = 0
        assign == wu /\ ~raised /\ ts % warmup_step_rate_la(c) = 0
        warm == IF assign
                THEN LET r == RatMul(Rat(ts, c.warmup_steps), Rat(c.lr, 1)) IN <<r, r>>
                ELSE lars
    IN  [raised |-> raised, lr |-> warm, echo |-> IF assign THEN 1 ELSE 0,
         policies |-> (IF c.use_lars THEN {"lars"} ELSE {})
                      \cup (IF assign THEN {"warmup"} ELSE {})]

\* the scheduler stepped in every step of the per-batch mode, warmup or not
batch_sch_dp_in_warmup(c, wu) == ~c.use_lars /\ c.batch_sch

\* cvap_dp.py: scheduler.step() runs inside the step
batch_sch_dp(c, wu) == ~c.use_lars /\ c.batch_sch /\ ~wu

\* the instances of this process alone
epoch_nchunk_one(c) == 1

\* nchunk of epoch(): the world size when distributed, else 1
epoch_nchunk(c) == IF c.ddp THEN c.num_gpus ELSE 1

\* ------------------------------------------------------------- a training step
\* the loop index counted from 0 in every epoch
enumerate_step_from_zero(c, ie, ib) == ib

\* epoch(): enumerate(self.dataloader, start=iepoch * len(self.dataloader)), the
\* index `step` of batch ib of epoch ie
enumerate_step(c, ie, ib) == ie * c.nstep + ib

\* the evaluate-and-checkpoint branch ahead of the progress line
step_stages_swapped == <<"branch", "peep">>

\* epoch(): what the loop body goes through after the counters, in order: the
\* progress line, then the evaluate-and-checkpoint branch
step_stages == <<"peep", "branch">>

\* the position after stage s; after the last one the next batch is fetched
stage_after(s) == IF s = step_stages[1] THEN step_stages[2] ELSE "batch"

\* the index of the batch the loop is at once the process is at position p
next_ibatch(p, ib) == IF p = "batch" THEN ib + 1 ELSE ib

\* whether the forward or the backward pass of the step raises
Faults(c) == IF c.faulty THEN BOOLEAN ELSE {FALSE}

\* the exception is swallowed and the step goes on
aborts_never(f) == FALSE

\* an exception raised by the forward or backward pass leaves epoch() and
\* learn(): neither has a handler
aborts(f) == f

\* one pass of the loop body of epoch() in cvap_dp.py, up to the counters
train_step_dp ==
    /\ pc = "batch" /\ cfg.variant = "cvap_dp" /\ ibatch < cfg.nstep
    /\ step' = enumerate_step(cfg, iepoch, ibatch)
    /\ \E f \in Faults(cfg) :
       LET pre == pre_step_dp(cfg, total_step, step', lr, base_lrs)
           sch == IF batch_sch_dp(cfg, pre.warmup)
                  THEN scheduler_step(cfg, sched, pre.lr, base_lrs)
                  ELSE [sched |-> sched, lr |-> pre.lr]
           fe  == IF batch_sch_dp(cfg, pre.warmup)
                     /\ cfg.scheduler = "CosineAnnealingWarmRestarts"
                  THEN LrsEq(sch.lr, base_lrs)
                  ELSE pre.force_eval
       IN  /\ lr_policies' = pre.policies
           /\ warmup' = pre.warmup
           /\ IF pre.raised
              THEN /\ pc' = "raised" /\ err' = "ZeroDivisionError"
                   /\ events' = <<>>
                   /\ force_eval' = FALSE
                   /\ lr' = pre.lr
                   /\ UNCHANGED <<sched, total_step, total_inst, total_loss, echoes,
                                  forced, nopt, lr_applied, lr_prev, fwd_modes,
                                  failed_at>>
              ELSE IF aborts(f)
              THEN /\ pc' = "raised" /\ err' = "RuntimeError"
                   /\ events' = <<>>
                   /\ force_eval' = pre.force_eval
                   /\ lr' = pre.lr
                   /\ echoes' = echoes + pre.echo
                   /\ fwd_modes' = fwd_modes \cup {<<"train", model>>}
                   /\ failed_at' = total_step
                   /\ UNCHANGED <<sched, total_step, total_inst, total_loss, forced,
                                  nopt, lr_applied, lr_prev>>
              ELSE /\ pc' = step_stages[1] /\ err' = err
                   /\ events' = <<"update", "count">>
                   /\ force_eval' = fe
                   /\ echoes' = echoes + pre.echo
                   /\ fwd_modes' = fwd_modes \cup {<<"train", model>>}
                   /\ failed_at' = IF f THEN total_step ELSE failed_at
                   /\ nopt' = nopt + 1
                   /\ lr_applied' = pre.lr
                   /\ lr_prev' = lr_applied
                   /\ sched' = sch.sched
                   /\ lr' = sch.lr
                   /\ total_step' = total_step + 1
                   /\ total_loss' = total_loss + 1
                   /\ total_inst' = total_inst + cfg.batch_size * epoch_nchunk(cfg)
                   /\ forced' = IF fe THEN forced \cup {total_step + 1} ELSE forced
    /\ UNCHANGED <<cfg, model, has_optimizer, evalloader, tunable_params,
                   requires_grad, base_lrs, counters, iepoch, ibatch,
                   loss_small, logs, branches, evals, saves, ninfer, neval_fwd>>
    /\ UNCHANGED <<cfg0, built, nsample, ieval, set_epochs, peer_run>>
    /\ UNCHANGED head_vars /\ UNCHANGED batch_vars

\* the same of clap_dp.py; the loss of the step, compared with 5 later on, is
\* any number
train_step_la ==
    /\ pc = "batch" /\ cfg.variant = "clap_dp" /\ ibatch < cfg.nstep
    /\ step' = enumerate_step(cfg, iepoch, ibatch)
    /\ \E f \in Faults(cfg) :
       LET pre == pre_step_la(cfg, total_step, step', lr)
       IN  /\ lr_policies' = pre.policies
           /\ lr' = pre.lr
           /\ IF pre.raised
              THEN /\ pc' = "raised" /\ err' = "ZeroDivisionError"
                   /\ events' = <<>>
                   /\ UNCHANGED <<total_step, total_inst, total_loss, echoes, nopt,
                                  lr_applied, lr_prev, loss_small, fwd_modes,
                                  failed_at>>
              ELSE IF aborts(f)
              THEN /\ pc' = "raised" /\ err' = "RuntimeError"
                   /\ events' = <<>>
                   /\ echoes' = echoes + pre.echo
                   /\ fwd_modes' = fwd_modes \cup {<<"train", model>>}
                   /\ failed_at' = total_step
                   /\ UNCHANGED <<total_step, total_inst, total_loss, nopt,
                                  lr_applied, lr_prev, loss_small>>
              ELSE /\ pc' = step_stages[1] /\ err' = err
                   /\ events' = <<"update", "count">>
                   /\ echoes' = echoes + pre.echo
                   /\ fwd_modes' = fwd_modes \cup {<<"train", model>>}
                   /\ failed_at' = IF f THEN total_step ELSE failed_at
                   /\ nopt' = nopt + 1
                   /\ lr_applied' = pre.lr
                   /\ lr_prev' = lr_applied
                   /\ loss_small' \in BOOLEAN
                   /\ total_step' = total_step + 1
                   /\ total_loss' = total_loss + 1
                   /\ total_inst' = total_inst + cfg.batch_size * epoch_nchunk(cfg)
    /\ UNCHANGED <<cfg, model, has_optimizer, evalloader, tunable_params,
                   requires_grad, base_lrs, sched, counters, iepoch, ibatch,
                   warmup, force_eval, logs, forced, branches, evals, saves, ninfer,
                   neval_fwd>>
    /\ UNCHANGED <<cfg0, built, nsample, ieval, set_epochs, peer_run>>
    /\ UNCHANGED head_vars /\ UNCHANGED batch_vars

\* the same of cvap.py: forward, backward, optimizer step, counters
train_step_cvap ==
    /\ pc = "batch" /\ cfg.variant = "cvap" /\ ibatch < cfg.nstep
    /\ \E f \in Faults(cfg) :
          /\ fwd_modes' = fwd_modes \cup {<<"train", model>>}
          /\ IF aborts(f)
             THEN /\ pc' = "raised" /\ err' = "RuntimeError"
                  /\ events' = <<>>
                  /\ failed_at' = total_step
                  /\ UNCHANGED <<nopt, lr_applied, lr_prev, total_step, total_loss,
                                 total_inst>>
             ELSE /\ pc' = step_stages[1] /\ err' = err
                  /\ events' = <<"update", "count">>
                  /\ failed_at' = IF f THEN total_step ELSE failed_at
                  /\ nopt' = nopt + 1
                  /\ lr_applied' = lr
                  /\ lr_prev' = lr_applied
                  /\ total_step' = total_step + 1
                  /\ total_loss' = total_loss + 1
                  /\ total_inst' = total_inst + cfg.batch_size
    /\ lr_policies' = {}
    /\ UNCHANGED <<cfg, model, has_optimizer, evalloader, tunable_params,
                   requires_grad, lr, base_lrs, sched, counters, iepoch, ibatch, step,
                   warmup, force_eval, loss_small, echoes, logs, forced, branches,
                   evals, saves, ninfer, neval_fwd>>
    /\ UNCHANGED <<cfg0, built, nsample, ieval, set_epochs, peer_run>>
    /\ UNCHANGED head_vars /\ UNCHANGED batch_vars

\* ------------------------------------------------------------- log, evaluate, save
\* the progress line on the saving cadence instead of the logging cadence
peep_cond_dp_saverate(c, ts, fe) == fe \/ (c.rank = 0 /\ ts % c.save_rate = 0)

\* the progress line without its rank gate
peep_cond_dp_anyrank(c, ts, fe) == fe \/ ts % c.peep_rate = 0

\* the condition of the progress line after the step that made total_step = ts
peep_cond_dp(c, ts, fe) == fe \/ (c.rank = 0 /\ ts % c.peep_rate = 0)

peep_cond_la(c, ts) == c.rank = 0 /\ ts % c.peep_rate = 0

peep_cond_cvap(c, ts) == ts % c.peep_rate = 0

\* the periodic progress line of epoch()
peep ==
    /\ pc = "peep"
    /\ pc' = stage_after("peep")
    /\ ibatch' = next_ibatch(pc', ibatch)
    /\ LET emit == CASE cfg.variant = "cvap_dp" -> peep_cond_dp(cfg, total_step, force_eval)
                     [] cfg.variant = "clap_dp" -> peep_cond_la(cfg, total_step)
                     [] cfg.variant = "cvap" -> peep_cond_cvap(cfg, total_step)
       IN  /\ logs' = IF emit THEN logs \cup {total_step} ELSE logs
           /\ echoes' = IF emit THEN echoes + 1 ELSE echoes
           /\ events' = IF emit THEN Append(events, "log") ELSE events
    /\ UNCHANGED <<cfg, err, model, has_optimizer, evalloader, tunable_params,
                   requires_grad, lr, base_lrs, sched, counters, total_step,
                   total_inst, total_loss, iepoch, step, warmup, force_eval,
                   loss_small, forced, branches, evals, saves, nopt, ninfer,
                   neval_fwd, lr_applied, lr_prev>>
    /\ UNCHANGED <<cfg0, built, nsample, ieval, fwd_modes, failed_at, lr_policies>>
    /\ UNCHANGED <<set_epochs, peer_run>>
    /\ UNCHANGED head_vars /\ UNCHANGED batch_vars

\* the branch without the forced evaluation
branch_cond_dp_noforce(c, ts, fe) ==
    ts % c.save_rate = 0 \/ (c.save_epoch /\ ts % c.nstep = 0)

\* the condition of the evaluate-and-checkpoint branch
branch_cond_dp(c, ts, fe) ==
    fe \/ ts % c.save_rate = 0 \/ (c.save_epoch /\ ts % c.nstep = 0)

branch_cond_la(c, ts) ==
    ts % c.save_rate = 0 \/ (c.save_epoch /\ ts % c.nstep = 0)

branch_cond_cvap(c, ts) == ts % c.save_rate = 0

\* whether the branch runs infer() on the evaluation loader
do_infer_dp(ev) == ev

do_infer_la(ev, small) == ev /\ small

\* the checkpoint written by every process
saves_checkpoint_anyrank(c) == TRUE

\* the process that writes the checkpoint
saves_checkpoint(c) == c.rank = 0

\* the other rank of a group of two
Peer(c) == [c EXCEPT !.rank = 1 - c.rank]

\* clap_dp.py: `loss.detach() < 5.` on the other rank, whose loss is that of its
\* own shard of the batch; explored on both sides of 5 in the configurations
\* marked skew, and taken on this rank's side elsewhere
PeerLoss(c, small) == IF c.skew THEN BOOLEAN ELSE {small}

\* the branch of epoch() in cvap_dp.py and clap_dp.py: entered or not; with an
\* evaluation, model.train(False) and the call of infer(); without one, the way
\* on to save() or to the next batch
evaluate ==
    /\ pc = "branch" /\ cfg.variant \in {"cvap_dp", "clap_dp"}
    /\ LET enter == IF cfg.variant = "cvap_dp"
                    THEN branch_cond_dp(cfg, total_step, force_eval)
                    ELSE branch_cond_la(cfg, total_step)
           run == IF cfg.variant = "cvap_dp" THEN do_infer_dp(evalloader)
                  ELSE do_infer_la(evalloader, loss_small)
       IN  /\ IF enter
              THEN /\ branches' = branches \cup {total_step}
                   /\ IF run
                      THEN /\ evals' = evals \cup {total_step}
                           /\ ninfer' = ninfer + 1
                           /\ model' = "eval"
                           /\ nsample' = 0 /\ ieval' = 0
                           /\ set_epochs' = IF sets_epoch(cfg)
                                             THEN Append(set_epochs, <<"eval", iepoch>>)
                                             ELSE set_epochs
                           /\ events' = Append(events, "eval")
                           /\ pc' = "infer" /\ ibatch' = ibatch
                      ELSE /\ UNCHANGED <<evals, ninfer, model, nsample, ieval,
                                          set_epochs, events>>
                           /\ pc' = IF saves_checkpoint(cfg) THEN "save"
                                    ELSE stage_after("branch")
                           /\ ibatch' = next_ibatch(pc', ibatch)
              ELSE /\ pc' = stage_after("branch")
                   /\ ibatch' = next_ibatch(pc', ibatch)
                   /\ UNCHANGED <<branches, evals, ninfer, model, nsample, ieval,
                                  set_epochs, events>>
           /\ IF cfg.ddp
              THEN \E small \in PeerLoss(cfg, loss_small) :
                      peer_run' =
                         IF cfg.variant = "cvap_dp"
                         THEN branch_cond_dp(Peer(cfg), total_step, force_eval)
                              /\ do_infer_dp(evalloader)
                         ELSE branch_cond_la(Peer(cfg), total_step)
                              /\ do_infer_la(evalloader, small)
              ELSE peer_run' = FALSE
    /\ UNCHANGED <<cfg, err, has_optimizer, evalloader, tunable_params,
                   requires_grad, lr, base_lrs, sched, counters, total_step,
                   total_inst, total_loss, iepoch, step, warmup, force_eval,
                   loss_small, echoes, logs, forced, saves, nopt, neval_fwd,
                   lr_applied, lr_prev>>
    /\ UNCHANGED <<cfg0, built, fwd_modes, failed_at, lr_policies>>
    /\ UNCHANGED head_vars /\ UNCHANGED batch_vars

\* the dataloader infer() was called with: the primary one by learn(), the
\* evaluation loader by epoch()
infer_nbatch == IF counters = "unset" THEN cfg.nstep ELSE cfg.neval

\* one pass of the loop body of infer(): the forward pass of a batch
infer_step ==
    /\ pc = "infer" /\ ieval < infer_nbatch
    /\ infer_continues(nsample, cfg.eval_samples)
    /\ fwd_modes' = fwd_modes \cup {<<"eval", model>>}
    /\ neval_fwd' = neval_fwd + 1
    /\ nsample' = nsample + cfg.batch_size * infer_nchunk(cfg)
    /\ ieval' = ieval + 1
    /\ echoes' = IF cfg.rank = 0 /\ (ieval + 1) % infer_peep_rate(infer_nbatch) = 0
                 THEN echoes + 1 ELSE echoes
    /\ UNCHANGED <<cfg, pc, err, model, has_optimizer, evalloader, tunable_params,
                   requires_grad, lr, base_lrs, sched, counters, total_step,
                   total_inst, total_loss, iepoch, ibatch, step, warmup, force_eval,
                   loss_small, logs, forced, branches, evals, saves, nopt, ninfer,
                   lr_applied, lr_prev, cfg0, built, failed_at, lr_policies>>
    /\ UNCHANGED <<events, set_epochs, peer_run>>
    /\ UNCHANGED head_vars /\ UNCHANGED batch_vars

\* the mode is left as infer() ran in
after_infer_mode_kept(m) == m

\* epoch(): self.model.train(True) after infer()
after_infer_mode(m) == "train"

\* the loop of infer() ends: the "# sample" line, the report, and back in the
\* caller the report is echoed; learn() returns, epoch() restores the mode and
\* goes on to save() or to the next batch
infer_end ==
    /\ pc = "infer"
    /\ ~(ieval < infer_nbatch /\ infer_continues(nsample, cfg.eval_samples))
    /\ echoes' = echoes + 2
    /\ IF counters = "unset"
       THEN /\ pc' = "done"
            /\ UNCHANGED <<model, ibatch, events>>
       ELSE /\ model' = after_infer_mode(model)
            /\ events' = Append(events, "evaluated")
            /\ pc' = IF saves_checkpoint(cfg) THEN "save" ELSE stage_after("branch")
            /\ ibatch' = next_ibatch(pc', ibatch)
    /\ UNCHANGED <<cfg, err, has_optimizer, evalloader, tunable_params,
                   requires_grad, lr, base_lrs, sched, counters, total_step,
                   total_inst, total_loss, iepoch, step, warmup, force_eval,
                   loss_small, logs, forced, branches, evals, saves, nopt, ninfer,
                   neval_fwd, lr_applied, lr_prev, cfg0, built, nsample, ieval,
                   fwd_modes, failed_at, lr_policies, set_epochs, peer_run>>
    /\ UNCHANGED head_vars /\ UNCHANGED batch_vars

\* the same of cvap.py: no evaluation, the checkpoint alone
evaluate_cvap ==
    /\ pc = "branch" /\ cfg.variant = "cvap"
    /\ IF branch_cond_cvap(cfg, total_step)
       THEN /\ branches' = branches \cup {total_step}
            /\ pc' = "save" /\ ibatch' = ibatch
       ELSE /\ pc' = stage_after("branch")
            /\ ibatch' = next_ibatch(pc', ibatch)
            /\ UNCHANGED branches
    /\ UNCHANGED <<cfg, err, model, has_optimizer, evalloader, tunable_params,
                   requires_grad, lr, base_lrs, sched, counters, total_step,
                   total_inst, total_loss, iepoch, step, warmup, force_eval,
                   loss_small, echoes, logs, forced, evals, saves, nopt, ninfer,
                   neval_fwd, lr_applied, lr_prev>>
    /\ UNCHANGED <<cfg0, built, nsample, ieval, fwd_modes, failed_at, lr_policies>>
    /\ UNCHANGED <<events, set_epochs, peer_run>>
    /\ UNCHANGED head_vars /\ UNCHANGED batch_vars

\* the checkpoint named after the epoch instead of the step
fsave_epoch(ts, ie) == ie

\* the file name of the checkpoint, f"{total_step:08d}.pth" under the run's
\* directory: the step number
fsave(ts, ie) == ts

\* save(), and the end of the loop body
save ==
    /\ pc = "save"
    /\ saves' = Append(saves, fsave(total_step, iepoch))
    /\ echoes' = echoes + 1
    /\ events' = Append(events, "save")
    /\ pc' = stage_after("branch")
    /\ ibatch' = next_ibatch(pc', ibatch)
    /\ UNCHANGED <<cfg, err, model, has_optimizer, evalloader, tunable_params,
                   requires_grad, lr, base_lrs, sched, counters, total_step,
                   total_inst, total_loss, iepoch, step, warmup, force_eval,
                   loss_small, logs, forced, branches, evals, nopt, ninfer,
                   neval_fwd, lr_applied, lr_prev>>
    /\ UNCHANGED <<cfg0, built, nsample, ieval, fwd_modes, failed_at, lr_policies>>
    /\ UNCHANGED <<set_epochs, peer_run>>
    /\ UNCHANGED head_vars /\ UNCHANGED batch_vars

\* ------------------------------------------------------------- end of an epoch
\* the scheduler is stepped once per epoch
epoch_sch_dp(c) == ~c.use_lars /\ ~c.batch_sch

epoch_sch_la(c) == ~c.use_lars

\* cvap.py: learn() leaves its loop after the epoch with iepoch > 2
break_cvap(ie) == ie > 2

\* the dataloader is exhausted: the rest of epoch(), and back to learn()
epoch_end ==
    /\ pc = "batch" /\ ibatch >= cfg.nstep
    /\ LET sch == CASE cfg.variant = "cvap_dp" /\ epoch_sch_dp(cfg) ->
                          scheduler_step(cfg, sched, lr, base_lrs)
                    [] cfg.variant = "clap_dp" /\ epoch_sch_la(cfg) ->
                          multistep_step(cfg, sched, lr)
                    [] OTHER -> [sched |-> sched, lr |-> lr]
       IN  /\ sched' = sch.sched
           /\ lr' = sch.lr
    /\ echoes' = IF cfg.variant # "cvap" /\ cfg.rank = 0 THEN echoes + 1 ELSE echoes
    /\ iepoch' = iepoch + 1
    /\ pc' = IF cfg.variant = "cvap" /\ break_cvap(iepoch) THEN "done" ELSE "epoch"
    /\ UNCHANGED <<cfg, err, model, has_optimizer, evalloader, tunable_params,
                   requires_grad, base_lrs, counters, total_step, total_inst,
                   total_loss, ibatch, step, warmup, force_eval, loss_small, logs,
                   forced, branches, evals, saves, nopt, ninfer, neval_fwd,
                   lr_applied, lr_prev>>
    /\ UNCHANGED <<cfg0, built, nsample, ieval, fwd_modes, failed_at, lr_policies>>
    /\ UNCHANGED <<events, set_epochs, peer_run>>
    /\ UNCHANGED head_vars /\ UNCHANGED batch_vars

Next ==
    \/ MonitorInit_dp \/ MonitorInit_la \/ MonitorInit_cvap \/ eval_cvap
    \/ learn \/ learn_cvap \/ epoch
    \/ train_step_dp \/ train_step_la \/ train_step_cvap
    \/ peep \/ evaluate \/ infer_step \/ infer_end \/ evaluate_cvap \/ save
    \/ epoch_end

Spec == Init /\ [][Next]_vars

\* the monitors in a process that is not interrupted: it goes on as long as it
\* has a step to take
FairSpec == Spec /\ WF_vars(Next)

\* ------------------------------------------------------------- BCELossHead
\* the labels (output_dim = 2) and the levels a prediction takes, in order
Labels == {1, 2}
Scores == {1, 2}

\* x2, the gold labels of a sample, and x1 as sigmoid(logits), its predictions
GoldRows == {0, 1} \X {0, 1}
ScoreRows == Scores \X Scores

RatAdd(a, b) == [n |-> a.n * b.d + b.n * a.d, d |-> a.d * b.d]

\* x2s[:, k], x1s[:, k]
Column(rows, k) == [i \in 1..Len(rows) |-> rows[i][k]]

\* sklearn.metrics.roc_auc_score raises ValueError: only one class in y_true
roc_auc_raises(y_true) == \A i, j \in 1..Len(y_true) : y_true[i] = y_true[j]

\* sklearn.metrics.roc_auc_score: the share of (positive, negative) pairs the
\* scores order rightly, a tie counting one half
roc_auc_score(y_true, y_score) ==
    LET pos == {i \in 1..Len(y_true) : y_true[i] = 1}
        neg == {i \in 1..Len(y_true) : y_true[i] = 0}
        gt == Cardinality({q \in pos \X neg : y_score[q[1]] > y_score[q[2]]})
        eq == Cardinality({q \in pos \X neg : y_score[q[1]] = y_score[q[2]]})
    IN  Rat(2 * gt + eq, 2 * Cardinality(pos) * Cardinality(neg))

\* the sum over the thresholds T of (R_n - R_{n-1}) * P_n
RECURSIVE ap_terms(_, _, _)
ap_terms(T, y_true, y_score) ==
    IF T = {} THEN Zero
    ELSE LET t == CHOOSE x \in T : TRUE
             I == 1..Len(y_true)
             npos == Cardinality({i \in I : y_true[i] = 1})
             tp == Cardinality({i \in I : y_true[i] = 1 /\ y_score[i] >= t})
             above == Cardinality({i \in I : y_true[i] = 1 /\ y_score[i] > t})
             fp == Cardinality({i \in I : y_true[i] = 0 /\ y_score[i] >= t})
             term == IF tp = above THEN Zero
                     ELSE RatMul(Rat(tp - above, npos), Rat(tp, tp + fp))
         IN  RatAdd(term, ap_terms(T \ {t}, y_true, y_score))

\* sklearn.metrics.average_precision_score(y_true, y_score, average=None):
\* without a positive sample the recall is 0/0, nan, or (later versions, with a
\* warning) the score is 0.
average_precision_score(y_true, y_score, nan) ==
    IF \A i \in 1..Len(y_true) : y_true[i] = 0
    THEN [nan |-> nan, v |-> Zero]
    ELSE [nan |-> FALSE, v |-> ap_terms(Scores, y_true, y_score)]

\* the flag as the last label alone sets it
has_err_after_last(prev, ap_isnan, auc_raised) == ap_isnan \/ auc_raised

\* report(): has_err after a label, `has_err = True` in either recovery
has_err_after(prev, ap_isnan, auc_raised) == prev \/ ap_isnan \/ auc_raised

\* report(): the loop over the labels from label k on
RECURSIVE report_labels(_, _, _, _, _)
report_labels(k, x1s, x2s, nan, acc) ==
    IF k \notin Labels THEN acc
    ELSE LET y_true == Column(x2s, k)
             y_score == Column(x1s, k)
             ap == average_precision_score(y_true, y_score, nan)
             auc_raised == roc_auc_raises(y_true)
         IN  report_labels(k + 1, x1s, x2s, nan,
                 [has_err |-> has_err_after(acc.has_err, ap.nan, auc_raised),
                  ap_list |-> Append(acc.ap_list, IF ap.nan THEN Zero ELSE ap.v),
                  auc_list |-> Append(acc.auc_list,
                                      IF auc_raised THEN Zero
                                      ELSE roc_auc_score(y_true, y_score))])

\* infer(x1, x2, names=names): the four lists are created when any is
\* missing; the features, the predictions made of them and the labels are
\* appended, and the names extend ids. The features are identified with the
\* levels of their predictions.
infer_buffers(b, x1, x2, names) ==
    LET b0 == IF ~b.has THEN [NoBuffers EXCEPT !.has = TRUE] ELSE b
    IN  [b0 EXCEPT !.audios = Append(@, x1), !.x1s = Append(@, x1),
                   !.x2s = Append(@, x2), !.ids = @ \o names]

\* kwargs["names"] of a call: the sample is named after its position in the pass
Names(n) == <<n + 1>>

\* BCELossHead.infer(x1, x2, names=...) called on the head
head_infer ==
    /\ nacc < MaxAcc /\ nreport < MaxReport
    /\ \E x1 \in ScoreRows, x2 \in GoldRows :
          buffers' = infer_buffers(buffers, x1, x2, Names(nacc))
    /\ acc_eval' = Append(acc_eval, nreport)
    /\ nacc' = nacc + 1
    /\ head_out' = [NoCall EXCEPT !.call = "infer"]
    /\ UNCHANGED <<nreport, ap_nan>>
    /\ UNCHANGED monitor_vars /\ UNCHANGED batch_vars

\* the samples are accumulated on every rank
head_accumulates_anyrank(c) == TRUE

\* forward(): `not dist.is_initialized() or dist.get_rank() == 0`
head_accumulates(c) == ~c.ddp \/ c.rank = 0

\* BCELossHead.forward(x1, x2, names=...): in training mode the loss; in
\* evaluation mode infer() on rank 0 or without a process group, and None with
\* nothing done on any other rank
head_forward ==
    /\ nacc < MaxAcc /\ nreport < MaxReport
    /\ \E training \in BOOLEAN, x1 \in ScoreRows, x2 \in GoldRows :
          IF ~training /\ head_accumulates(cfg)
          THEN /\ buffers' = infer_buffers(buffers, x1, x2, Names(nacc))
               /\ acc_eval' = Append(acc_eval, nreport)
               /\ nacc' = nacc + 1
               /\ head_out' = [NoCall EXCEPT !.call = "forward", !.ret = "None"]
          ELSE /\ UNCHANGED <<buffers, acc_eval, nacc>>
               /\ head_out' = [NoCall EXCEPT !.call = "forward",
                                             !.training = training,
                                             !.ret = IF training THEN "loss"
                                                     ELSE "None"]
    /\ UNCHANGED <<nreport, ap_nan>>
    /\ UNCHANGED monitor_vars /\ UNCHANGED batch_vars

\* the buffers outlive the report
del_buffers_kept(b) == b

\* report(): del self.audios, self.x1s, self.x2s, self.ids
del_buffers(b) == NoBuffers

\* BCELossHead.report(): the metrics of the buffered samples, then the buffers
\* are deleted; without buffers self.x1s raises AttributeError
head_report ==
    /\ nreport < MaxReport
    /\ IF ~buffers.has
       THEN /\ head_out' = [NoCall EXCEPT !.call = "report",
                                          !.raised = "AttributeError", !.nacc = nacc]
            /\ UNCHANGED <<buffers, acc_eval, nreport, nacc>>
       ELSE /\ LET r == report_labels(1, buffers.x1s, buffers.x2s, ap_nan,
                                      [has_err |-> FALSE, ap_list |-> <<>>,
                                       auc_list |-> <<>>])
               IN  head_out' = [call |-> "report", raised |-> "",
                                has_err |-> r.has_err, ap_list |-> r.ap_list,
                                auc_list |-> r.auc_list,
                                nsample |-> Len(buffers.x1s),
                                x1s |-> buffers.x1s, x2s |-> buffers.x2s,
                                of_eval |-> {acc_eval[i] : i \in 1..Len(acc_eval)},
                                nacc |-> nacc, training |-> FALSE, ret |-> "report"]
            /\ buffers' = del_buffers(buffers)
            /\ acc_eval' = IF buffers'.has THEN acc_eval ELSE <<>>
            /\ nreport' = nreport + 1
            /\ nacc' = 0
    /\ UNCHANGED ap_nan
    /\ UNCHANGED monitor_vars /\ UNCHANGED batch_vars

\* a head on its own, in a single process or on a rank of a group of two: any
\* sequence of forward(), infer() and report() calls
HeadInit ==
    /\ cfg \in {Ranked(Base, rm) : rm \in RankModes}
    /\ tunable_params = DefaultTunable
    /\ requires_grad = [k \in ParamNames |-> TRUE]
    /\ MonitorNew
    /\ HeadNew /\ ap_nan \in BOOLEAN
    /\ BatchNew

HeadNext == head_infer \/ head_forward \/ head_report

HeadSpec == HeadInit /\ [][HeadNext]_vars

\* ------------------------------------------------------------- make_batch
\* the height / width of an image, or the width of its flattened features
ImageSizes == {2, 3}
Channels == 3
SampleIds == {"a", "b"}

\* the shapes of the arrays of a batch of b samples: spectrograms (b, F, T),
\* images batched as (b, C, H, W) or flattened to (b, D), labels (b, nlabel)
AudioShapes(b) == {<<b, f, t>> : f \in 1..MaxDim, t \in 1..MaxDim}
ImageShapes(b) ==
    {<<b, d>> : d \in ImageSizes}
    \cup {<<b, Channels, h, w>> : h \in ImageSizes, w \in ImageSizes}

Batches ==
    UNION {[images : ImageShapes(b), audios : AudioShapes(b),
            text : {<<b, Cardinality(Labels)>>}, ids : [1..b -> SampleIds]] :
           b \in 1..MaxDim}

\* the new dimension put in front
unsqueeze_front(shape, dim) == <<1>> \o shape

\* tensor.unsqueeze(dim): a dimension of size 1 inserted at index dim (from 0)
unsqueeze(shape, dim) ==
    SubSeq(shape, 1, dim) \o <<1>> \o SubSeq(shape, dim + 1, Len(shape))

\* F.interpolate(images, size, mode="bilinear") of a (N, C, H, W) tensor
interpolate(shape, size) == <<shape[1], shape[2], size, size>>

\* cvap_dp.py: `images.dim() != 2 and images.shape[-1] != resolution`
resizes(shape, res) == Len(shape) # 2 /\ shape[Len(shape)] # res

\* make_batch of cvap_dp.py: (images, audios, batch[2])
make_batch_dp(b, c) ==
    LET re == resizes(b.images, c.resolution)
    IN  [ret |-> <<"images", "audios", "ids">>, resized |-> re,
         images |-> IF re THEN interpolate(b.images, c.resolution) ELSE b.images,
         audios |-> unsqueeze(b.audios, 1), text |-> <<>>, ids |-> b.ids]

\* make_batch of clap_dp.py: (batch[0].unsqueeze(1), batch[1], batch[2])
make_batch_la(b, c) ==
    [ret |-> <<"audios", "text", "ids">>, resized |-> FALSE, images |-> <<>>,
     audios |-> unsqueeze(b.audios, 1), text |-> b.text, ids |-> b.ids]

\* make_batch of cvap.py: (batch["image"], batch["audio"].unsqueeze(1))
make_batch_cvap(b, c) ==
    [ret |-> <<"images", "audios">>, resized |-> FALSE, images |-> b.images,
     audios |-> unsqueeze(b.audios, 1), text |-> <<>>, ids |-> <<>>]

\* the dataloader yields a batch
fetch ==
    /\ batch' \in Batches
    /\ made' = NoMade
    /\ UNCHANGED monitor_vars /\ UNCHANGED head_vars

\* make_batch(batch) of the Monitor class in use
make_batch ==
    /\ batch # NoBatch /\ made = NoMade
    /\ made' = CASE cfg.variant = "cvap_dp" -> make_batch_dp(batch, cfg)
                  [] cfg.variant = "clap_dp" -> make_batch_la(batch, cfg)
                  [] cfg.variant = "cvap" -> make_batch_cvap(batch, cfg)
    /\ UNCHANGED batch
    /\ UNCHANGED monitor_vars /\ UNCHANGED head_vars

\* the monitors and the target resolutions
BatchCfgs ==
    {[Base EXCEPT !.variant = v, !.resolution = r, !.eval_exists = (v # "cvap")] :
        v \in Variants, r \in ImageSizes}

\* a Monitor's make_batch on its own: any sequence of batches
BatchInit ==
    /\ cfg \in BatchCfgs
    /\ tunable_params = DefaultTunable
    /\ requires_grad = [k \in ParamNames |-> TRUE]
    /\ MonitorNew
    /\ HeadNew /\ ap_nan = FALSE
    /\ BatchNew

BatchNext == fetch \/ make_batch

BatchSpec == BatchInit /\ [][BatchNext]_vars

\* ------------------------------------------------------------- properties
\* the training steps whose progress-line decision has been taken
Peeped == 1..(IF pc = "peep" THEN total_step - 1 ELSE total_step)

\* the training steps whose evaluate-and-checkpoint decision has been taken
Branched == 1..(IF pc \in {"peep", "branch"} THEN total_step - 1 ELSE total_step)

EndToEndDone ==
    /\ pc = "done" /\ counters = "set" /\ cfg.rank = 0
    /\ cfg.nstep = 10 /\ cfg.peep_rate = 5 /\ cfg.save_rate = 10 /\ cfg.epochs = 1

\* C2 as stated: 10 batches, peep_rate 5, save_rate 10, one epoch on rank 0 give
\* exactly 2 progress lines, exactly 1 checkpoint write and total_step = 10.
C2_EndToEnd ==
    EndToEndDone => Cardinality(logs) = 2 /\ Len(saves) = 1 /\ total_step = 10

\* C2 amended: the same, for a run in which no step detects a forced evaluation.
C2_EndToEndUnforced ==
    EndToEndDone /\ forced = {} =>
        Cardinality(logs) = 2 /\ Len(saves) = 1 /\ total_step = 10

C2_Witness ==
    /\ EndToEndDone /\ forced = {} /\ cfg.variant = "cvap_dp" /\ cfg.batch_sch
    /\ logs = {5, 10} /\ saves = <<10>>

\* C3: when learn() returns from training, total_step = epochs * len(dataloader).
C3_EpochsTimesBatches ==
    pc = "done" /\ counters = "set" => total_step = cfg.epochs * cfg.nstep

\* C4: with warmup on and LARS off, over the steps that start with total_step in
\* 1..warmup_steps the applied rates do not decrease from one step to the next,
\* and the step that starts with total_step = warmup_steps applies the base rates.
C4_WarmupReachesBase ==
    /\ cfg.variant \in {"cvap_dp", "clap_dp"}
    /\ cfg.warmup /\ ~cfg.use_lars /\ cfg.warmup_steps >= 1
    /\ pc = "peep" /\ total_step - 1 \in 1..cfg.warmup_steps
    => /\ \A g \in 1..2 : RatLeq(lr_prev[g], lr_applied[g])
       /\ (total_step - 1 = cfg.warmup_steps => LrsEq(lr_applied, base_lrs))

Constructed == pc \notin {"new", "raised"} /\ model # "none"

\* C5: after construction the parameters with gradient tracking enabled are
\* exactly the parameters named in the tunable mapping.
C5_FreezingExact ==
    Constructed => {k \in ParamNames : requires_grad[k]} = tunable_params

\* C6: the checkpoint paths written in a run are pairwise distinct: each is the
\* total_step of its step, and they strictly increase.
C6_DistinctPaths ==
    \A i, j \in 1..Len(saves) : i < j => saves[i] < saves[j] /\ saves[j] <= total_step

C6_Witness == Len(saves) >= 2 /\ pc = "done"

\* C7 as stated: every checkpoint is written by rank 0 in a step in which an
\* evaluation pass ran before it.
C7_SaveAfterEvaluation ==
    /\ \A i \in 1..Len(saves) : saves[i] \in evals /\ cfg.rank = 0
    /\ (pc = "save" => total_step \in evals /\ cfg.rank = 0)

\* whether the branch of the current step runs infer()
RunsInfer ==
    \/ cfg.variant = "cvap_dp" /\ evalloader
    \/ cfg.variant = "clap_dp" /\ evalloader /\ loss_small

\* C7 amended: every checkpoint is written by rank 0 inside the
\* evaluate-and-checkpoint branch of its step, after the evaluation pass of that
\* step when there is one; the pass runs only if an evaluation loader exists
\* (in clap_dp only if also the loss of the step is below 5; never in cvap.py).
C7_SaveInBranchByRankZero ==
    /\ (saves # <<>> \/ pc = "save") => cfg.rank = 0
    /\ \A i \in 1..Len(saves) : saves[i] \in branches
    /\ evals \subseteq branches
    /\ (~evalloader => evals = {})
    /\ (pc = "save" => total_step \in branches /\ (total_step \in evals <=> RunsInfer))

C7_Witness ==
    /\ pc = "done" /\ cfg.variant = "cvap_dp"
    /\ \E i \in 1..Len(saves) : saves[i] \notin evals

\* C8: the evaluate-and-checkpoint branch runs after the step that brings
\* total_step to n iff n mod save_rate = 0, or save_epoch is set and
\* n mod len(dataloader) = 0, or a scheduler transition was detected in that
\* step; a detected transition means the rates equal the scheduler's base rates;
\* evaluation and checkpoints occur in no other step.
C8_BranchIffTriggered ==
    /\ \A n \in Branched :
          n \in branches <=> \/ n % cfg.save_rate = 0
                             \/ cfg.save_epoch /\ n % cfg.nstep = 0
                             \/ n \in forced
    /\ evals \subseteq branches
    /\ \A i \in 1..Len(saves) : saves[i] \in branches
    /\ (pc \in {"peep", "branch"} /\ force_eval => LrsEq(lr, base_lrs))

C8_Witness ==
    /\ pc = "done"
    /\ \E n \in branches : n \in forced /\ n % cfg.save_rate # 0
    /\ \E n \in branches : n \notin forced
    /\ \E n \in Branched : n \notin branches

\* C9: a process whose rank is not 0 never calls the logging sink and never
\* writes a checkpoint during learn().
C9_RankGating == cfg.rank # 0 => echoes = 0 /\ saves = <<>>

\* C10: in evaluation mode learn() makes exactly one inference pass over the
\* primary dataloader, emits the report, takes no optimizer step, writes no
\* checkpoint and leaves the run-state counters uncreated.
C10_EvalModeLearn ==
    pc = "done" /\ model = "eval" =>
        /\ ninfer = 1 /\ neval_fwd = infer_batches(cfg, cfg.nstep)
        /\ echoes >= 1
        /\ nopt = 0 /\ saves = <<>> /\ counters = "unset"

\* C11: in a training run every training forward/backward pass is made in train
\* mode and every evaluation forward pass in eval mode: the model is in eval mode
\* throughout an inference pass and back in train mode before the next batch.
C11_ModeRestoration ==
    /\ fwd_modes \subseteq {<<"train", "train">>, <<"eval", "eval">>}
    /\ (pc = "infer" => model = "eval")
    /\ (counters = "set" /\ pc \in {"epoch", "batch", "peep", "branch", "save", "done"}
          => model = "train")

C11_Witness ==
    /\ pc = "peep" /\ \E n \in evals : n < total_step
    /\ fwd_modes = {<<"train", "train">>, <<"eval", "eval">>}

\* C12: infer() processes a batch only while nsample is below samples: the
\* samples counted stay below samples plus one batch's count, every processed
\* batch is counted once, the pass ends at the end of the loader or at the first
\* batch boundary with nsample >= samples, and with samples = infinity every
\* batch of the loader is processed.
C12_SampleBound ==
    LET per == cfg.batch_size * (IF cfg.ddp THEN cfg.num_gpus ELSE 1)
        samples == cfg.eval_samples
        finished == ninfer > 0 /\ pc # "infer"
    IN  /\ nsample = ieval * per /\ ieval <= infer_nbatch
        /\ (~samples.inf => nsample < samples.n + per)
        /\ (finished => \/ ieval = infer_nbatch
                        \/ ~samples.inf /\ nsample >= samples.n)
        /\ (finished /\ samples.inf => ieval = infer_nbatch)

C12_Witness ==
    /\ ninfer > 0 /\ pc = "done" /\ ~cfg.eval_samples.inf
    /\ 0 < ieval /\ ieval < infer_nbatch /\ nsample > cfg.eval_samples.n

\* C13: the aggregator is single-use. A report() after one or more infer()
\* calls returns and deletes the buffers; a report() with no infer() since the
\* last one (or since creation) raises; the buffers hold the accumulations made
\* since the last report and nothing else, and those are what a report covers.
C13_SingleUse ==
    /\ (buffers.has <=> nacc >= 1)
    /\ Len(buffers.x1s) = nacc /\ Len(buffers.x2s) = nacc
    /\ \A i \in 1..Len(acc_eval) : acc_eval[i] = nreport
    /\ (head_out.call = "report" =>
          /\ (head_out.raised = "" <=> head_out.nacc >= 1)
          /\ (head_out.raised # "" => head_out.raised = "AttributeError")
          /\ (head_out.raised = "" =>
                /\ ~buffers.has
                /\ head_out.nsample = head_out.nacc
                /\ head_out.of_eval = {nreport - 1}))

C13_Witness ==
    /\ nreport = 1 /\ head_out.call = "report" /\ head_out.raised = "AttributeError"

\* a label column with one class only: its AUC cannot be computed
OneClass(y) == \A i \in DOMAIN y : y[i] = y[1]

\* a label column without a positive: its average precision is undefined
NoPositive(y) == \A i \in DOMAIN y : y[i] = 0

\* C14: report() on accumulated samples returns whatever the labels are; the
\* AUC of a label whose AUC cannot be computed is 0 and the average precision of
\* a label without positives is 0; the error flag is true exactly when some
\* label is degenerate.
C14_DegeneracyRecovery ==
    head_out.call = "report" /\ head_out.nacc >= 1 =>
        /\ head_out.raised = ""
        /\ \A k \in Labels :
              LET y == Column(head_out.x2s, k)
              IN  /\ OneClass(y) => RatEq(head_out.auc_list[k], Zero)
                  /\ NoPositive(y) => RatEq(head_out.ap_list[k], Zero)
        /\ (head_out.has_err <=> \E k \in Labels : OneClass(Column(head_out.x2s, k)))

C14_Witness ==
    /\ head_out.call = "report" /\ head_out.raised = "" /\ head_out.has_err
    /\ NoPositive(Column(head_out.x2s, 1)) /\ ~OneClass(Column(head_out.x2s, 2))
    /\ ~RatEq(head_out.auc_list[2], Zero) /\ ~RatEq(head_out.ap_list[2], Zero)

\* C15: once the forward or backward pass of a training step has raised, the
\* run has ended with that exception: nothing runs after it (no retry, no
\* further batch), total_step is the number of steps completed before it, and
\* no progress line, evaluation or checkpoint belongs to the failed step.
C15_FailedStepAborts ==
    failed_at >= 0 =>
        /\ pc = "raised" /\ err = "RuntimeError"
        /\ ~ENABLED Next
        /\ total_step = failed_at /\ nopt = failed_at
        /\ \A n \in logs \cup branches \cup evals : n <= failed_at
        /\ \A i \in 1..Len(saves) : saves[i] <= failed_at

C15_Witness ==
    /\ failed_at >= 2 /\ pc = "raised" /\ iepoch = 1
    /\ failed_at \in logs /\ Len(saves) = failed_at

\* C16: in every training step at most one of the two learning-rate policies
\* (the LARS adjustment, the warmup assignment) acts on the parameter groups.
C16_PolicyExclusive == Cardinality(lr_policies) <= 1

\* C17: the counters are reset to 0 when training starts; every completed
\* training step adds 1 to total_step and batch size times the number of
\* processes to total_inst; nothing else changes them.
C17_Counters ==
    [][LET start == pc = "ready" /\ pc' = "epoch"
           stepped == pc = "batch" /\ pc' = "peep"
       IN  /\ start => total_step' = 0 /\ total_inst' = 0 /\ total_loss' = 0
           /\ stepped =>
                 /\ total_step' = total_step + 1
                 /\ total_inst' = total_inst
                       + cfg.batch_size * (IF cfg.ddp THEN cfg.num_gpus ELSE 1)
           /\ ~start /\ ~stepped =>
                 total_step' = total_step /\ total_inst' = total_inst]_vars

C17_Witness ==
    /\ pc = "done" /\ cfg.ddp /\ total_step >= 2
    /\ total_inst = total_step * cfg.batch_size * cfg.num_gpus
    /\ logs # {} /\ evals # {} /\ saves # <<>> /\ total_step \notin logs

\* C18: with eval_norms the constructor runs the mean/std pass only, builds
\* neither model nor optimizer, and learn() returns without a training or
\* inference step; otherwise the model is built before the optimizer and both
\* before the first epoch.
C18_StateMachine ==
    /\ (cfg.eval_norms /\ pc # "new" =>
          /\ built = <<"data", "norms">> /\ model = "none" /\ ~has_optimizer
          /\ pc \in {"ready", "done"}
          /\ nopt = 0 /\ ninfer = 0 /\ neval_fwd = 0 /\ fwd_modes = {}
          /\ counters = "unset")
    /\ (has_optimizer => built = <<"data", "model", "optimizer">>)
    /\ (counters = "set" => has_optimizer /\ model # "none")

C18_Witness == cfg.eval_norms /\ ~cfg.eval /\ pc = "done"

\* C19: a configuration that names an unknown optimizer or scheduler fails in
\* the constructor, and no training step ever runs under it.
C19_UnknownNameFails ==
    ~torch_has(cfg.optimizer) \/ ~torch_has(cfg.scheduler) =>
        pc \in {"new", "raised"} /\ nopt = 0

\* C20: after construction peep_rate is min(configured peep_rate, number of
\* batches) and every other configuration field is as configured.
C20_ConfigImmutable ==
    pc # "new" =>
        cfg = [cfg0 EXCEPT !.peep_rate = IF cfg0.nstep < cfg0.peep_rate
                                         THEN cfg0.nstep ELSE cfg0.peep_rate]

\* C21: for a batch whose audio array has shape (B, F, T), make_batch returns
\* an audio tensor of shape (B, 1, F, T); the identifiers it returns are the
\* batch's, and the batch itself is as the dataloader yielded it.
C21_ChannelInsertion ==
    made # NoMade /\ Len(batch.audios) = 3 =>
        /\ made.audios = <<batch.audios[1], 1, batch.audios[2], batch.audios[3]>>
        /\ (cfg.variant \in {"cvap_dp", "clap_dp"} =>
              made.ret[3] = "ids" /\ made.ids = batch.ids)
        /\ batch \in Batches

C21_Witness ==
    /\ made # NoMade /\ cfg.variant = "cvap_dp"
    /\ batch.audios = <<2, 1, 2>> /\ made.audios = <<2, 1, 1, 2>>
    /\ batch.ids = <<"b", "a">> /\ made.ids = <<"b", "a">>

\* C22: make_batch of cvap_dp.py resizes the images iff they are not flattened
\* and their height or width differs from the target resolution; every
\* non-flattened image tensor it returns has height and width equal to the
\* resolution, and flattened ones are returned as they came.
C22_ResizeIff ==
    made # NoMade /\ cfg.variant = "cvap_dp" =>
        LET im == batch.images
            res == cfg.resolution
            flat == Len(im) = 2
        IN  /\ (made.resized <=> ~flat /\ (im[3] # res \/ im[4] # res))
            /\ (~flat => made.images[3] = res /\ made.images[4] = res)
            /\ (flat => made.images = im)

\* a training run, once started, ends: learn() returns or an exception leaves it
Terminates == counters = "set" ~> pc \in {"done", "raised"}

\* C23: a training run of finitely many batches and epochs ends, and when
\* learn() returns from it the last batch of the last configured epoch has been
\* processed: there is no other graceful exit.
C23_Termination ==
    /\ Terminates
    /\ [](pc = "done" /\ counters = "set" =>
            iepoch = cfg.epochs /\ total_step = cfg.epochs * cfg.nstep)

\* the side effects of one training step, in the order claimed
StepOrder == <<"update", "count", "log", "eval", "evaluated", "save">>

Place(ev) == CHOOSE i \in 1..Len(StepOrder) : StepOrder[i] = ev

\* what the current training step has done so far
Done == {events[i] : i \in 1..Len(events)}

\* C24: in a training step the optimizer update and the counter advance come
\* first; then the progress line, before the evaluation pass starts; the
\* evaluation pass ends before the checkpoint is written; and all of them have
\* finished when the next batch is fetched.
C24_StepOrder ==
    /\ \A i, j \in 1..Len(events) : i < j => Place(events[i]) < Place(events[j])
    /\ (events # <<>> =>
          /\ Len(events) >= 2 /\ events[1] = "update" /\ events[2] = "count"
          /\ nopt = total_step
          /\ ("log" \in Done <=> total_step \in logs)
          /\ ("eval" \in Done <=> total_step \in evals)
          /\ ("save" \in Done <=>
                 saves # <<>> /\ saves[Len(saves)] = total_step))
    /\ (pc = "infer" /\ counters = "set" <=>
          events # <<>> /\ events[Len(events)] = "eval")
    /\ (pc = "batch" /\ "eval" \in Done => "evaluated" \in Done)

C24_Witness ==
    /\ pc = "batch" /\ events = StepOrder /\ cfg.variant = "clap_dp"

\* C25: in a distributed run both ranks take the same decision, in every
\* training step, on whether to run the evaluation pass: once this rank's
\* decision of the step is taken, the other rank has run infer() in the step
\* iff this rank has.
C25_SameDecision ==
    cfg.ddp /\ events # <<>> /\ pc \notin {"peep", "branch"} =>
        (peer_run <=> total_step \in evals)

\* C26: in cvap_dp.py with LARS off and the per-batch mode, scheduler.step() is
\* called once in every training step that starts with warmup off or with
\* total_step > warmup_steps, in no other step and not at the end of an epoch;
\* in the per-epoch mode it is called once at the end of every epoch and in no
\* step; with LARS on it is never called.
C26_SchedulerSteps ==
    [][cfg.variant = "cvap_dp" =>
         LET stepped == pc = "batch" /\ pc' = "peep"
             ended == pc = "batch" /\ pc' = "epoch"
             calls == sched'.last_epoch - sched.last_epoch
             active == cfg.warmup /\ total_step <= cfg.warmup_steps
         IN  /\ stepped =>
                   calls = IF ~cfg.use_lars /\ cfg.batch_sch /\ ~active THEN 1 ELSE 0
             /\ ended =>
                   calls = IF ~cfg.use_lars /\ ~cfg.batch_sch THEN 1 ELSE 0
             /\ ~stepped /\ ~ended => calls = 0
             /\ cfg.use_lars => calls = 0]_vars

C26_Witness ==
    /\ cfg.variant = "cvap_dp" /\ ~cfg.use_lars /\ cfg.batch_sch /\ cfg.warmup
    /\ pc = "done" /\ iepoch = 2
    /\ 0 < sched.last_epoch /\ sched.last_epoch < total_step

\* C27: in cvap_dp.py and clap_dp.py the loop index `step` of a training step
\* equals total_step as it was when the step started, in every epoch: once the
\* step has advanced the counter the index is one behind it, and a step that
\* raised has left both equal.
C27_StepIsTotalStep ==
    cfg.variant \in {"cvap_dp", "clap_dp"} /\ counters = "set" =>
        /\ (events # <<>> => step = total_step - 1)
        /\ (pc = "raised" => step = total_step)
        /\ (pc = "batch" /\ ibatch < cfg.nstep =>
              enumerate_step(cfg, iepoch, ibatch) = total_step)

C27_Witness ==
    /\ pc = "peep" /\ cfg.use_lars /\ iepoch = 1 /\ ibatch = 1
    /\ step = total_step - 1 /\ step = cfg.nstep + 1

\* C28: no training step divides or takes a remainder by zero: with warmup on,
\* warmup_steps >= 0 and a non-empty dataloader no step raises
\* ZeroDivisionError, and the cadence divisors are not 0 when epoch() uses them.
C28_NoZeroDivision ==
    cfg.warmup /\ cfg.warmup_steps >= 0 /\ cfg.nstep >= 1 =>
        /\ err # "ZeroDivisionError"
        /\ (pc \in {"peep", "branch"} =>
              /\ cfg.peep_rate # 0 /\ cfg.save_rate # 0
              /\ (cfg.save_epoch => cfg.nstep # 0))

\* the lists of b, none of which exists before the head's first infer()
Held(b) == <<b.audios, b.x1s, b.x2s>>

\* C29: an evaluation forward of the head returns None; on a rank other than 0
\* of a process group it leaves the buffers as they are (absent, if they were),
\* and on rank 0 or without a process group it appends exactly one entry to
\* each of audios, x1s and x2s.
C29_RankZeroAccumulates ==
    [][head_out'.call = "forward" /\ ~head_out'.training =>
         /\ head_out'.ret = "None"
         /\ IF cfg.ddp /\ cfg.rank # 0
            THEN buffers' = buffers
            ELSE /\ buffers'.has
                 /\ \A i \in 1..3 :
                       /\ Len(Held(buffers')[i]) = Len(Held(buffers)[i]) + 1
                       /\ SubSeq(Held(buffers')[i], 1, Len(Held(buffers)[i]))
                             = Held(buffers)[i]]_vars

C29_Witness ==
    /\ cfg.ddp /\ cfg.rank # 0
    /\ head_out.call = "forward" /\ ~head_out.training /\ head_out.ret = "None"
    /\ ~buffers.has /\ nreport = 0

\* the calls of set_epoch on the sampler of the main dataloader
OnMain(q) == q[1] = "main"

MainCalls == SelectSeq(set_epochs, OnMain)

\* the epochs of the training run that have started
EpochsStarted == IF pc \in {"epoch", "done"} THEN iepoch ELSE iepoch + 1

\* C30: in a distributed training run learn() has called set_epoch(i) on the
\* training sampler exactly once for every epoch i that has started, in
\* increasing order and before the first batch of the epoch is fetched; without
\* a process group set_epoch is never called.
C30_SetEpoch ==
    /\ (~cfg.ddp => set_epochs = <<>>)
    /\ (cfg.ddp /\ counters = "set" =>
          MainCalls = [i \in 1..EpochsStarted |-> <<"main", i - 1>>])

C30_Witness ==
    /\ cfg.ddp /\ counters = "set" /\ pc = "batch" /\ iepoch = 1 /\ ibatch = 0
    /\ MainCalls = <<<<"main", 0>>, <<"main", 1>>>>
    /\ Len(set_epochs) > 2

====
